---- MODULE Spec2Model ----
(***************************************************************************)
(* Model of the class-extraction engine of python_refactor_tool_box:       *)
(* SourceFile.refactor with the identifier normaliser, the code index      *)
(* (code tree), the dependency resolver and the cross-file import          *)
(* rewriters it calls.                                                     *)
(*                                                                         *)
(* Text is modelled as a sequence of one-character strings.  A parsed      *)
(* file is modelled by the body of its ast.Module: a sequence of statement *)
(* nodes, each with the fields the engine reads.  ast.parse and the        *)
(* unparser are external: parsing gives every node a fresh identity (uid), *)
(* rendering writes the statements it is given, in the order given.        *)
(***************************************************************************)
EXTENDS Integers, Sequences, FiniteSets, TLC

(***************************************************************************)
(* Characters and strings (str methods used by the code)                   *)
(***************************************************************************)
UpperChars == <<"A","B","C","D","E","F","G","H","I","J","K","L","M",
                "N","O","P","Q","R","S","T","U","V","W","X","Y","Z">>
LowerChars == <<"a","b","c","d","e","f","g","h","i","j","k","l","m",
                "n","o","p","q","r","s","t","u","v","w","x","y","z">>
DigitChars == {"0","1","2","3","4","5","6","7","8","9"}

IsUpper(c) == \E k \in DOMAIN UpperChars : UpperChars[k] = c
IsLower(c) == \E k \in DOMAIN LowerChars : LowerChars[k] = c
IsDigit(c) == c \in DigitChars
IsAlnum(c) == IsUpper(c) \/ IsLower(c) \/ IsDigit(c)
IsSpace(c) == c \in {" ", "\t", "\n"}
IsWordChar(c) == IsAlnum(c) \/ c = "_"

LowerChar(c) ==
    IF IsUpper(c)
    THEN LowerChars[CHOOSE k \in DOMAIN UpperChars : UpperChars[k] = c]
    ELSE c

\* str.lower()
StrLower(s) == [k \in 1..Len(s) |-> LowerChar(s[k])]

Min(S) == CHOOSE x \in S : \A y \in S : x <= y
Max(S) == CHOOSE x \in S : \A y \in S : y <= x

\* s[a:b] of Python, 0-based, b exclusive
Slice(s, a, b) == IF b <= a THEN <<>> ELSE SubSeq(s, a + 1, b)

\* s.startswith(p), s.endswith(p)
StartsWith(s, p) == Len(p) <= Len(s) /\ SubSeq(s, 1, Len(p)) = p
EndsWith(s, p) == Len(p) <= Len(s) /\ SubSeq(s, Len(s) - Len(p) + 1, Len(s)) = p

\* s.split(".")[0]
SplitDotFirst(s) ==
    LET dots == {k \in 1..Len(s) : s[k] = "."}
    IN  IF dots = {} THEN s ELSE SubSeq(s, 1, Min(dots) - 1)

\* s.strip()
Strip(s) ==
    LET keep == {k \in 1..Len(s) : ~IsSpace(s[k])}
    IN  IF keep = {} THEN <<>> ELSE SubSeq(s, Min(keep), Max(keep))

\* s.replace(old, new): every non-overlapping occurrence, left to right
RECURSIVE StrReplace(_, _, _)
StrReplace(s, old, new) ==
    IF old = <<>> \/ Len(s) < Len(old) THEN s
    ELSE IF StartsWith(s, old)
         THEN new \o StrReplace(SubSeq(s, Len(old) + 1, Len(s)), old, new)
         ELSE <<s[1]>> \o StrReplace(Tail(s), old, new)

\* s.replace(old, new, 1) for a string that starts with old
ReplaceFirstPrefix(s, old, new) == new \o SubSeq(s, Len(old) + 1, Len(s))

\* re.sub(r"[-\s]+", "_", s)
RECURSIVE SubHyphenSpace(_)
SubHyphenSpace(s) ==
    IF s = <<>> THEN <<>>
    ELSE IF s[1] = "-" \/ IsSpace(s[1])
         THEN LET rest == {k \in 1..Len(s) : ~(s[k] = "-" \/ IsSpace(s[k]))}
              IN  IF rest = {} THEN <<"_">>
                  ELSE <<"_">> \o SubHyphenSpace(SubSeq(s, Min(rest), Len(s)))
         ELSE <<s[1]>> \o SubHyphenSpace(Tail(s))

\* re.sub(r"[^\w\s]", "", s)
StripSpecial(s) == SelectSeq(s, LAMBDA c : IsWordChar(c) \/ IsSpace(c))

(***************************************************************************)
(* Identifier normaliser: snake_case.to_snake_case                         *)
(***************************************************************************)
\* name[k] of Python (0-based)
At(s, k) == s[k + 1]

\* the index at which a `while end < len and P(name[end]): end += 1` loop
\* started at `from` stops
RunEnd(name, from, P(_)) ==
    Min({j \in from..Len(name) : j = Len(name) \/ ~P(At(name, j))})

IsLowerOrDigit(c) == IsLower(c) \/ IsDigit(c)
IsUpperOrDigit(c) == IsUpper(c) \/ IsDigit(c)

\* end_index after one pass of the word-extraction loop body (lines 52-74)
WordEnd(name, start) ==
    LET c == At(name, start)
    IN  IF IsDigit(c) THEN RunEnd(name, start, IsDigit)
        ELSE IF IsLower(c) THEN RunEnd(name, start, IsLowerOrDigit)
        ELSE IF IsUpper(c)
             THEN LET e1 == RunEnd(name, start, IsUpperOrDigit)
                  IN  IF (e1 - start) > 1 /\ e1 < Len(name)
                      THEN IF e1 > start /\ IsLower(At(name, e1)) THEN e1 - 1 ELSE e1
                      ELSE RunEnd(name, e1, IsLowerOrDigit)
        ELSE start + 1

\* the loop of lines 51-81 without the test of line 78
RECURSIVE ExtractWords_keep_underscore(_, _)
ExtractWords_keep_underscore(name, start) ==
    IF start >= Len(name) THEN <<>>
    ELSE LET e == WordEnd(name, start)
         IN  <<Slice(name, start, e)>> \o ExtractWords_keep_underscore(name, e)

\* the list `words` built by the loop of lines 51-81
RECURSIVE ExtractWords(_, _)
ExtractWords(name, start) ==
    IF start >= Len(name) THEN <<>>
    ELSE LET e == WordEnd(name, start)
             w == Slice(name, start, e)
         IN  (IF w # <<"_">> THEN <<w>> ELSE <<>>) \o ExtractWords(name, e)

\* "_".join(words)
RECURSIVE JoinUnderscore(_)
JoinUnderscore(words) ==
    IF words = <<>> THEN <<>>
    ELSE IF Len(words) = 1 THEN words[1]
    ELSE words[1] \o <<"_">> \o JoinUnderscore(Tail(words))

\* lines 36-86, for a name whose first and last characters are alphanumeric
SnakeCore(name0) ==
    LET name == StripSpecial(SubHyphenSpace(name0))
    IN  IF name = <<>> THEN name
        ELSE JoinUnderscore([k \in 1..Len(ExtractWords(name, 0)) |->
                                StrLower(ExtractWords(name, 0)[k])])

\* the value None: no string, and false in `if not name`
None == <<"None">>

RECURSIVE to_snake_case(_)
to_snake_case(name0) ==
    IF name0 = None \/ name0 = <<>> THEN name0
    ELSE LET name == Strip(name0)
             alnum == {k \in 0..(Len(name) - 1) : IsAlnum(At(name, k))}
         IN  IF name = <<>> THEN name
             ELSE IF alnum = {} THEN name
             ELSE LET start_index == Min(alnum)
                      end_index == Max(alnum)
                  IN  IF start_index > 0 \/ end_index < Len(name) - 1
                      THEN LET inner_name == Slice(name, start_index, end_index + 1)
                           IN  StrReplace(name, inner_name, to_snake_case(inner_name))
                      ELSE SnakeCore(name)

\* code_format_helper.generate_module_name
generate_module_name(class_name) == to_snake_case(class_name)

(***************************************************************************)
(* Statement nodes and the code tree (ast_helper)                          *)
(*                                                                         *)
(* A node is a record                                                      *)
(*   kind    the ast statement type: "Import", "ImportFrom", "ClassDef",   *)
(*           "FunctionDef", "Assign", "AnnAssign", "Expr"                  *)
(*   uid     the node's identity (id(node) of Python)                      *)
(*   name    name of a ClassDef / FunctionDef                              *)
(*   module  module of an ImportFrom; <<>> stands for None                 *)
(*   level   level of an ImportFrom                                        *)
(*   aliases the ast.alias list of an import: records [name, asname],      *)
(*           asname <<>> standing for None                                 *)
(*   targets the ast.Name targets of an Assign / AnnAssign                 *)
(*   ids     the ids of the other ast.Name nodes of the statement's own    *)
(*           expressions (bases, values, annotations)                      *)
(*   body    the statements of the node's body                             *)
(*   lineno  the line of the text the statement was parsed from            *)
(* A code tree is a Python dict from kind to list of nodes: a sequence of  *)
(* records [kind, nodes] in key insertion order.                           *)
(***************************************************************************)
Range(f) == {f[k] : k \in DOMAIN f}

RECURSIVE Relabel(_, _)
Relabel(node, uid) ==
    [node EXCEPT !.uid = uid,
                 !.body = [j \in 1..Len(node.body) |-> Relabel(node.body[j], uid \o <<j>>)]]

\* ast.parse: every node of the module is a new object
ParseBody(body) == [k \in 1..Len(body) |-> Relabel(body[k], <<k>>)]

\* ast.dump / the unparser: what a node says, without its identity and
\* without its position in the text
RECURSIVE Dump(_)
Dump(node) ==
    [node EXCEPT !.uid = <<>>,
                 !.lineno = 0,
                 !.body = [j \in 1..Len(node.body) |-> Dump(node.body[j])]]

\* {n.id for n in ast.walk(node) if isinstance(n, ast.Name)}
RECURSIVE NameIds(_)
NameIds(node) ==
    node.ids \cup Range(node.targets)
        \cup UNION {NameIds(node.body[j]) : j \in 1..Len(node.body)}

\* the identities of set(ast.walk(node)), statements only
RECURSIVE WalkUids(_)
WalkUids(node) ==
    {node.uid} \cup UNION {WalkUids(node.body[j]) : j \in 1..Len(node.body)}

RECURSIVE ConcatBodies(_)
ConcatBodies(nodes) ==
    IF nodes = <<>> THEN <<>> ELSE Head(nodes).body \o ConcatBodies(Tail(nodes))

\* the statements of ast.walk(tree) in its (breadth-first) order
RECURSIVE WalkStmts(_)
WalkStmts(level) ==
    IF level = <<>> THEN <<>> ELSE level \o WalkStmts(ConcatBodies(level))

Keys(tree) == {tree[k].kind : k \in DOMAIN tree}
KeyIndex(tree, kind) == CHOOSE k \in DOMAIN tree : tree[k].kind = kind
Bucket(tree, kind) ==
    IF kind \in Keys(tree) THEN tree[KeyIndex(tree, kind)].nodes ELSE <<>>

\* the dict after get_elements_by_type(kind, tree): a missing key is added
\* with an empty list (lines 661-666)
get_elements_by_type(kind, tree) ==
    IF kind \in Keys(tree) THEN tree ELSE Append(tree, [kind |-> kind, nodes |-> <<>>])

\* set_elements_by_type with a list that is not the bucket itself
set_elements_by_type(kind, tree, new_elements) ==
    LET t == get_elements_by_type(kind, tree)
    IN  [t EXCEPT ![KeyIndex(t, kind)].nodes = new_elements]

\* code_tree.setdefault(type(node), []).append(node) for each node in order
RECURSIVE BucketAll(_, _)
BucketAll(tree, nodes) ==
    IF nodes = <<>> THEN tree
    ELSE LET n == Head(nodes)
             t == get_elements_by_type(n.kind, tree)
         IN  BucketAll([t EXCEPT ![KeyIndex(t, n.kind)].nodes = Append(@, n)], Tail(nodes))

DropEmpty(tree) == SelectSeq(tree, LAMBDA b : b.nodes # <<>>)

\* add_nodes_to_new_tree over one bucket: the nodes not seen yet are kept and
\* marked seen with everything below them (lines 49-111)
RECURSIVE CleanNodes(_, _)
CleanNodes(nodes, seen) ==
    IF nodes = <<>> THEN [kept |-> <<>>, seen |-> seen]
    ELSE LET n == Head(nodes)
         IN  IF n.uid \in seen THEN CleanNodes(Tail(nodes), seen)
             ELSE LET r == CleanNodes(Tail(nodes), seen \cup WalkUids(n))
                  IN  [kept |-> <<n>> \o r.kept, seen |-> r.seen]

RECURSIVE CleanBuckets(_, _)
CleanBuckets(tree, seen) ==
    IF tree = <<>> THEN <<>>
    ELSE LET r == CleanNodes(Head(tree).nodes, seen)
         IN  <<[kind |-> Head(tree).kind, nodes |-> r.kept]>>
                 \o CleanBuckets(Tail(tree), r.seen)

clean_code_tree(tree) == DropEmpty(CleanBuckets(tree, {}))

\* the code tree of a parsed module body
load_code_code_tree_from_code(body) ==
    clean_code_tree(DropEmpty(BucketAll(<<>>, WalkStmts(ParseBody(body)))))

RECURSIVE ConcatBuckets(_, _)
ConcatBuckets(tree, kinds) ==
    IF kinds = <<>> THEN <<>>
    ELSE Bucket(tree, Head(kinds)) \o ConcatBuckets(tree, Tail(kinds))

prior_types == <<"Import", "ImportFrom", "ClassDef">>
remaining_types(tree) ==
    LET rest == SelectSeq(tree, LAMBDA b : b.kind \notin Range(prior_types))
    IN  [k \in 1..Len(rest) |-> rest[k].kind]

\* the body of the module that generate_code_from_tree renders
generate_code_from_tree(tree) ==
    LET code_nodes == ConcatBuckets(tree, prior_types)
                        \o ConcatBuckets(tree, remaining_types(tree))
    IN  [k \in 1..Len(code_nodes) |-> Dump(code_nodes[k])]

(***************************************************************************)
(* Dependency resolver (ast_helper)                                        *)
(***************************************************************************)
NoName == <<>>

Node(kind, name, module, level, aliases, targets, ids, body) ==
    [kind |-> kind, uid |-> <<>>, lineno |-> 0, name |-> name, module |-> module,
     level |-> level, aliases |-> aliases, targets |-> targets, ids |-> ids,
     body |-> body]

Alias(name, asname) == [name |-> name, asname |-> asname]

\* a node made by the engine itself gets the identity <<0, serial>>
create_import_from(module_name, class_name, serial) ==
    [Node("ImportFrom", NoName, module_name, 1, <<Alias(class_name, NoName)>>,
          <<>>, {}, <<>>) EXCEPT !.uid = <<0, serial>>]

RECURSIVE Repeat(_, _)
Repeat(x, n) == IF n <= 0 THEN <<>> ELSE <<x>> \o Repeat(x, n - 1)

\* how often lines 286-293 append imp to required_imports
ClassImportHits(imp, class_names) ==
    IF imp.kind = "Import"
    THEN Cardinality({k \in DOMAIN imp.aliases :
                         SplitDotFirst(imp.aliases[k].name) \in class_names})
    ELSE IF imp.kind = "ImportFrom"
              /\ imp.module # <<>>
              /\ \E k \in DOMAIN imp.aliases : imp.aliases[k].name \in class_names
         THEN 1
         ELSE 0

RECURSIVE RequiredImportsOf(_, _)
RequiredImportsOf(class_names, imports) ==
    IF imports = <<>> THEN <<>>
    ELSE Repeat(Head(imports), ClassImportHits(Head(imports), class_names))
            \o RequiredImportsOf(class_names, Tail(imports))

get_class_required_imports(class_node, imports) ==
    RequiredImportsOf(NameIds(class_node), imports)

get_class_required_import_froms(class_node, import_froms) ==
    SelectSeq(import_froms,
              LAMBDA imp : imp.module # <<>>
                           /\ \E k \in DOMAIN imp.aliases :
                                 imp.aliases[k].name \in NameIds(class_node))

get_class_required_functions(class_node, functions) ==
    SelectSeq(functions, LAMBDA f : f.name \in NameIds(class_node))

get_class_required_assigns(class_node, assigns) ==
    SelectSeq(assigns,
              LAMBDA a : \E k \in DOMAIN a.targets : a.targets[k] \in NameIds(class_node))

get_class_required_ann_assigns(class_node, ann_assigns) ==
    SelectSeq(ann_assigns,
              LAMBDA a : a.targets # <<>> /\ a.targets[1] \in NameIds(class_node))

get_class_required_exprs(class_node, exprs) ==
    SelectSeq(exprs, LAMBDA e : NameIds(e) \cap NameIds(class_node) # {})

\* get_class_dependencies: the keys of the code tree with empty lists, the
\* six lists assigned in the order of lines 447-462, the empty ones dropped
get_class_dependencies(class_node, tree) ==
    LET empty == [b \in DOMAIN tree |-> [kind |-> tree[b].kind, nodes |-> <<>>]]
        t1 == set_elements_by_type("Import", empty,
                  get_class_required_imports(class_node, Bucket(tree, "Import")))
        t2 == set_elements_by_type("ImportFrom", t1,
                  get_class_required_import_froms(class_node, Bucket(tree, "ImportFrom")))
        t3 == set_elements_by_type("FunctionDef", t2,
                  get_class_required_functions(class_node, Bucket(tree, "FunctionDef")))
        t4 == set_elements_by_type("Assign", t3,
                  get_class_required_assigns(class_node, Bucket(tree, "Assign")))
        t5 == set_elements_by_type("AnnAssign", t4,
                  get_class_required_ann_assigns(class_node, Bucket(tree, "AnnAssign")))
        t6 == set_elements_by_type("Expr", t5,
                  get_class_required_exprs(class_node, Bucket(tree, "Expr")))
    IN  DropEmpty(t6)

\* the names add_imports_for_elements makes an import for, in order
RECURSIVE ElementNames(_)
ElementNames(elements) ==
    IF elements = <<>> THEN <<>>
    ELSE (IF Head(elements).kind = "FunctionDef"
          THEN <<Head(elements).name>>
          ELSE Head(elements).targets) \o ElementNames(Tail(elements))

\* the code tree after the getters of generate_code_tree_for_class have read it
TreeReadForClass(tree) ==
    get_elements_by_type("AnnAssign",
      get_elements_by_type("Assign",
        get_elements_by_type("FunctionDef",
          get_elements_by_type("ImportFrom",
            get_elements_by_type("Import", tree)))))

\* the names of the sibling functions and assignments the class needs
ClassSiblingNames(class_node, tree) ==
    ElementNames(get_class_required_functions(class_node, Bucket(tree, "FunctionDef")))
      \o ElementNames(get_class_required_assigns(class_node, Bucket(tree, "Assign")))
      \o ElementNames(get_class_required_ann_assigns(class_node, Bucket(tree, "AnnAssign")))

generate_code_tree_for_class(class_node, tree, target_module_name, serial) ==
    LET sib == ClassSiblingNames(class_node, tree)
        new_code_tree ==
          << [kind |-> "Import",
              nodes |-> get_class_required_imports(class_node, Bucket(tree, "Import"))],
             [kind |-> "ImportFrom",
              nodes |-> get_class_required_import_froms(class_node,
                                                        Bucket(tree, "ImportFrom"))
                        \o [k \in 1..Len(sib) |->
                              create_import_from(target_module_name, sib[k], serial + k)]],
             [kind |-> "ClassDef", nodes |-> <<class_node>>] >>
    IN  clean_code_tree(DropEmpty(new_code_tree))

\* names of all nodes of all buckets (lines 536-541)
TreeNames(tree) ==
    UNION {UNION {NameIds(tree[b].nodes[k]) : k \in 1..Len(tree[b].nodes)} :
              b \in DOMAIN tree}

ImportIsRequired(imp, all_names) ==
    IF imp.kind = "Import"
    THEN \E k \in DOMAIN imp.aliases : SplitDotFirst(imp.aliases[k].name) \in all_names
    ELSE imp.kind = "ImportFrom"
         /\ imp.module # <<>>
         /\ \E k \in DOMAIN imp.aliases : imp.aliases[k].name \in all_names

\* required_imports_set: a set of nodes; list() of it has no defined order
get_code_tree_required_imports(tree, imports) ==
    {imports[k] : k \in {j \in DOMAIN imports : ImportIsRequired(imports[j], TreeNames(tree))}}

\* every list holding exactly the members of a set, once each
ListsOf(S) ==
    {f \in [1..Cardinality(S) -> S] : \A x \in S : \E k \in DOMAIN f : f[k] = x}

remove_class_from_code_tree(class_node, tree) ==
    [b \in DOMAIN tree |->
        [kind |-> tree[b].kind,
         nodes |-> SelectSeq(tree[b].nodes,
                             LAMBDA n : n.uid \notin WalkUids(class_node))]]

(***************************************************************************)
(* The file tree, the searches over it and the import rewriters            *)
(*                                                                         *)
(* disk maps the path of every existing file to [ok, body]: ok says        *)
(* whether ast.parse accepts the text, body is the parsed module body.     *)
(* All files live in the subject's directory, so a path is a file name.    *)
(***************************************************************************)
PY == <<".", "p", "y">>

\* SourceFile.file_name and SourceFile.module
file_name(p) == p
module(p) == SplitDotFirst(file_name(p))

Unparseable == [ok |-> FALSE, body |-> <<>>]
Source(body) == [ok |-> TRUE, body |-> body]

\* open(path, "w").write(text)
WriteFile(d, p, body) ==
    [q \in DOMAIN d \cup {p} |-> IF q = p THEN Source(body) ELSE d[q]]

\* os.remove(path)
RemoveFile(d, p) == [q \in DOMAIN d \ {p} |-> d[q]]

\* the files the os.walk loops of code_search_helper go on to inspect: the
\* .py files other than the current one that ast.parse accepts
ScannedFiles(d, current_file_path) ==
    {p \in DOMAIN d : EndsWith(p, PY) /\ p # current_file_path /\ d[p].ok}

IsImportNode(n) == n.kind \in {"Import", "ImportFrom"}

find_class_dependent_files(class_name, current_file_path, d) ==
    {p \in ScannedFiles(d, current_file_path) :
        \E n \in Range(WalkStmts(d[p].body)) :
            /\ IsImportNode(n)
            /\ \E k \in DOMAIN n.aliases :
                  \/ n.aliases[k].name = class_name
                  \/ SplitDotFirst(n.aliases[k].name) = class_name}

\* Lines 80-87 test `isinstance(node, ImportFrom) and node.module == name or
\* any(... for alias in node.names)` on every node of ast.walk(tree).  The
\* first node is the ast.Module, which is no ImportFrom and has no attribute
\* `names`: the test raises AttributeError on the first file inspected.
find_module_dependent_files(module_name, current_file_path, d) ==
    IF ScannedFiles(d, current_file_path) # {}
    THEN [raised |-> TRUE, files |-> {}]
    ELSE [raised |-> FALSE, files |-> {}]

RenameAliases(aliases, P(_), F(_)) ==
    [k \in DOMAIN aliases |->
        IF P(aliases[k].name)
        THEN [aliases[k] EXCEPT !.name = F(aliases[k].name)]
        ELSE aliases[k]]

\* ImportUpdater of update_class_imports_in_file on one statement
RECURSIVE UpdateClassImport(_, _, _, _)
UpdateClassImport(n, class_name, previous_module_name, new_module_name) ==
    IF n.kind = "Import"
    THEN [n EXCEPT !.aliases =
            RenameAliases(@, LAMBDA a : a = previous_module_name,
                             LAMBDA a : new_module_name)]
    ELSE IF n.kind = "ImportFrom"
    THEN IF n.module = previous_module_name
            /\ \E k \in DOMAIN n.aliases : n.aliases[k].name = class_name
         THEN [n EXCEPT !.module = new_module_name]
         ELSE n
    ELSE [n EXCEPT !.body =
            [j \in 1..Len(n.body) |->
                UpdateClassImport(n.body[j], class_name, previous_module_name,
                                  new_module_name)]]

update_class_imports_in_file(body, class_name, previous_module_name, new_module_name) ==
    [k \in 1..Len(body) |->
        UpdateClassImport(body[k], class_name, previous_module_name, new_module_name)]

\* ImportUpdater of update_module_imports_in_file on one statement
RECURSIVE UpdateModuleImport(_, _, _)
UpdateModuleImport(n, previous_module_name, new_module_name) ==
    IF n.kind = "Import"
    THEN [n EXCEPT !.aliases =
            RenameAliases(@, LAMBDA a : StartsWith(a, previous_module_name),
                             LAMBDA a : ReplaceFirstPrefix(a, previous_module_name,
                                                           new_module_name))]
    ELSE IF n.kind = "ImportFrom"
    THEN IF n.module # <<>> /\ StartsWith(n.module, previous_module_name)
         THEN [n EXCEPT !.module =
                 ReplaceFirstPrefix(@, previous_module_name, new_module_name)]
         ELSE n
    ELSE [n EXCEPT !.body =
            [j \in 1..Len(n.body) |->
                UpdateModuleImport(n.body[j], previous_module_name, new_module_name)]]

update_module_imports_in_file(body, previous_module_name, new_module_name) ==
    [k \in 1..Len(body) |->
        UpdateModuleImport(body[k], previous_module_name, new_module_name)]

(***************************************************************************)
(* Structural comparator (code_compare_helper.compare_from_code)           *)
(***************************************************************************)
Count(seq, x) == Cardinality({k \in DOMAIN seq : seq[k] = x})
Dumps(nodes) == [k \in 1..Len(nodes) |-> Dump(nodes[k])]

\* dumps of left == dumps of right, without sorted()
SameUnsorted(left, right) == left = right

\* sorted(dumps of left) == sorted(dumps of right)
SameSorted(left, right) ==
    /\ Len(left) = Len(right)
    /\ \A x \in Range(left) \cup Range(right) : Count(left, x) = Count(right, x)

\* the comparison without the test of lines 20-21
compare_code_trees_no_len(left_code_tree, right_code_tree) ==
    \A b \in DOMAIN left_code_tree :
        LET type_name == left_code_tree[b].kind
        IN  /\ type_name \in Keys(right_code_tree)
            /\ Len(left_code_tree[b].nodes) = Len(Bucket(right_code_tree, type_name))
            /\ SameSorted(Dumps(left_code_tree[b].nodes),
                          Dumps(Bucket(right_code_tree, type_name)))

compare_code_trees(left_code_tree, right_code_tree) ==
    /\ Len(left_code_tree) = Len(right_code_tree)
    /\ \A b \in DOMAIN left_code_tree :
          LET type_name == left_code_tree[b].kind
          IN  /\ type_name \in Keys(right_code_tree)
              /\ Len(left_code_tree[b].nodes) = Len(Bucket(right_code_tree, type_name))
              /\ SameSorted(Dumps(left_code_tree[b].nodes),
                            Dumps(Bucket(right_code_tree, type_name)))

compare_from_code(left_code, right_code) ==
    compare_code_trees(load_code_code_tree_from_code(left_code),
                       load_code_code_tree_from_code(right_code))

(***************************************************************************)
(* Inputs: the file trees refactor is run on                               *)
(***************************************************************************)
MaxBody == 3        \* most statements in the subject module
MaxRuns == 2        \* refactor is invoked at most this often on the module

n_os == <<"o", "s">>
n_os_path == <<"o", "s", ".", "p">>
n_osp == <<"o", "s", "p">>
n_numpy == <<"n", "u", "m">>
n_np == <<"n", "p">>
n_helper == <<"h", "l", "p">>
n_pkg == <<"p", "k", "g">>
n_util == <<"u", "t", "l">>
n_K == <<"K">>
n_Foo == <<"F", "o", "o">>
n_Bar == <<"B", "a", "r">>
n_f == <<"f">>
n_a == <<"a">>
n_b == <<"b">>
n_y == <<"y">>

Import(name, asname) ==
    Node("Import", NoName, <<>>, 0, <<Alias(name, asname)>>, <<>>, {}, <<>>)
ImportFrom(mod, level, names) ==
    Node("ImportFrom", NoName, mod, level,
         [k \in 1..Len(names) |-> Alias(names[k], NoName)], <<>>, {}, <<>>)
Assign(target, ids) == Node("Assign", NoName, <<>>, 0, <<>>, <<target>>, ids, <<>>)
ClassDef(name, bases, body) == Node("ClassDef", name, <<>>, 0, <<>>, <<>>, bases, body)
FunctionDef(name, body) == Node("FunctionDef", name, <<>>, 0, <<>>, <<>>, {}, body)

\* the statements a subject module is made of, in source order:
\*   import os / import os.p as osp / import num as np / from . import hlp
\*   from pkg import utl / K = 1 / class Foo: a = os
\*   class Bar(Foo): b = np / def f(): y = hlp(utl)
Pool ==
    << Import(n_os, NoName),
       Import(n_os_path, n_osp),
       Import(n_numpy, n_np),
       ImportFrom(<<>>, 1, <<n_helper>>),
       ImportFrom(n_pkg, 0, <<n_util>>),
       Assign(n_K, {}),
       ClassDef(n_Foo, {}, <<Assign(n_a, {n_os})>>),
       ClassDef(n_Bar, {n_Foo}, <<Assign(n_b, {n_np})>>),
       FunctionDef(n_f, <<Assign(n_y, {n_helper, n_util})>>) >>

\* the members of a set of indices in increasing order
RECURSIVE Ascending(_)
Ascending(S) == IF S = {} THEN <<>> ELSE <<Min(S)>> \o Ascending(S \ {Min(S)})

SubjectBodies ==
    {[k \in 1..Cardinality(S) |-> Pool[Ascending(S)[k]]] :
        S \in {T \in SUBSET DOMAIN Pool : Cardinality(T) <= MaxBody}}

\* m.py / foo.py / Foo.PY / Ab.py
SubjectPaths ==
    { <<"m">> \o PY, <<"f", "o", "o">> \o PY, <<"F", "o", "o", ".", "P", "Y">>,
      <<"A", "b">> \o PY }

p_user == <<"u", "s", "r">> \o PY
p_bad == <<"b", "a", "d">> \o PY

\* usr.py: from <subject module> import Foo, K / import <subject module>
UserBody(subject) ==
    << ImportFrom(module(subject), 0, <<n_Foo, n_K>>), Import(module(subject), NoName) >>

OtherFiles(subject) ==
    { [q \in S |-> IF q = p_user THEN Source(UserBody(subject)) ELSE Unparseable] :
        S \in SUBSET {p_user, p_bad} }

WithSubject(others, subject, content) ==
    [q \in DOMAIN others \cup {subject} |-> IF q = subject THEN content ELSE others[q]]

Scenarios ==
    UNION { UNION {
        \* the subject exists and parses
        {[disk |-> WithSubject(o, sp, Source(b)), subject |-> sp] : b \in SubjectBodies}
        \* the subject exists and does not parse
        \cup {[disk |-> WithSubject(o, sp, Unparseable), subject |-> sp]}
        \* the subject does not exist
        \cup {[disk |-> o, subject |-> sp]}
      : o \in OtherFiles(sp)} : sp \in SubjectPaths }

(***************************************************************************)
(* SourceFile                                                              *)
(***************************************************************************)
VARIABLES
    disk,        \* the file tree
    path,        \* self.__path of the subject SourceFile
    loaded,      \* self.__code_tree is not None
    tree,        \* self.__code_tree
    i,           \* the cursor of the extraction loop
    serial,      \* number of nodes the engine has created in this call
    pc,          \* position in refactor: "start", "load", "extract", "done", "raised"
    result,      \* what the call returned or raised
    runs,        \* number of the current refactor call on the module
    disk_start,  \* the file tree when the current call began
    path_start,  \* self.__path when the current call began
    after_first, \* the file tree when the first call returned
    extracted,   \* what the current call has extracted so far, in order
    skipped,     \* the classes the current call has left in place, in order
    call,        \* the arguments of a helper called on its own
    ret          \* what the calls of that helper have returned, in order

vars == <<disk, path, loaded, tree, i, serial, pc, result, runs,
          disk_start, path_start, after_first, extracted, skipped, call, ret>>

Init ==
    \E sc \in Scenarios :
        /\ disk = sc.disk
        /\ path = sc.subject
        /\ loaded = FALSE
        /\ tree = <<>>
        /\ i = 0
        /\ serial = 0
        /\ pc = "start"
        /\ result = "none"
        /\ runs = 1
        /\ disk_start = sc.disk
        /\ path_start = sc.subject
        /\ after_first = <<>>
        /\ extracted = <<>>
        /\ skipped = <<>>
        /\ call = <<>>
        /\ ret = <<>>

\* SourceFile.is_exists / os.path.exists(self.path)
is_exists(d, p) == p \in DOMAIN d

\* SourceFile.save: the file tree after writing the rendered code tree
save(d, p, t) == WriteFile(d, p, generate_code_from_tree(t))

\* every dependent file rewritten by F
RewriteFiles(d, files, F(_)) ==
    [q \in DOMAIN d |-> IF q \in files THEN Source(F(d[q].body)) ELSE d[q]]

\* move_to_module with os.remove placed before the load of the code tree
move_to_module_remove_first(d, p) ==
    LET previous_module == module(p)
        target_module_name == generate_module_name(previous_module)
        t == load_code_code_tree_from_code(d[p].body)
        removed == RemoveFile(d, p)
        found == find_module_dependent_files(previous_module, p, removed)
        new_path == StrReplace(p, previous_module \o PY, target_module_name \o PY)
        saved == save(removed, new_path, t)
    IN  IF previous_module = target_module_name
        THEN [status |-> "same", disk |-> d, path |-> p, loaded |-> FALSE, tree |-> <<>>]
        ELSE IF ~d[p].ok
        THEN [status |-> "parse_error", disk |-> removed, path |-> p,
              loaded |-> FALSE, tree |-> <<>>]
        ELSE IF found.raised
        THEN [status |-> "search_error", disk |-> removed, path |-> p,
              loaded |-> TRUE, tree |-> t]
        ELSE [status |-> "moved",
              disk |-> RewriteFiles(saved, found.files,
                          LAMBDA body : update_module_imports_in_file(
                                            body, previous_module, module(new_path))),
              path |-> new_path, loaded |-> TRUE, tree |-> t]

\* SourceFile.move_to_module on an existing file: how it ends ("same": the
\* name is already normalised; "parse_error": loading the code tree raised;
\* "search_error": find_module_dependent_files raised; "moved"), and the
\* file tree, path and code tree it leaves
move_to_module(d, p) ==
    LET previous_module == module(p)
        target_module_name == generate_module_name(previous_module)
        t == load_code_code_tree_from_code(d[p].body)
        removed == RemoveFile(d, p)
        found == find_module_dependent_files(previous_module, p, removed)
        new_path == StrReplace(p, previous_module \o PY, target_module_name \o PY)
        saved == save(removed, new_path, t)
    IN  IF previous_module = target_module_name
        THEN [status |-> "same", disk |-> d, path |-> p, loaded |-> FALSE, tree |-> <<>>]
        ELSE IF ~d[p].ok
        THEN [status |-> "parse_error", disk |-> d, path |-> p,
              loaded |-> FALSE, tree |-> <<>>]
        ELSE IF found.raised
        THEN [status |-> "search_error", disk |-> removed, path |-> p,
              loaded |-> TRUE, tree |-> t]
        ELSE [status |-> "moved",
              disk |-> RewriteFiles(saved, found.files,
                          LAMBDA body : update_module_imports_in_file(
                                            body, previous_module, module(new_path))),
              path |-> new_path, loaded |-> TRUE, tree |-> t]

\* the class list the loop test reads: self.classes adds the ClassDef key
ClassesRead(t) == get_elements_by_type("ClassDef", t)
classes(t) == Bucket(t, "ClassDef")

\* target_file_path of a class (line 287)
target_file_path(class_node) == generate_module_name(class_node.name) \o PY

\* lines 294-302 with neither test: no class is left in place
LeftInPlace_never(self_path, target_path) == FALSE

\* the tests of lines 294-302 without the comparison up to letter case
LeftInPlace_exact_only(self_path, target_path) == self_path = target_path

\* the two tests of lines 294-302 that leave a class in place
LeftInPlace(self_path, target_path) ==
    \/ self_path = target_path
    \/ (self_path # target_path /\ StrLower(self_path) = StrLower(target_path))

\* lines 311-313 without the removal of the class of line 316
PruneOrigin_keep_class(t, class_node, new_import) ==
    LET read == get_elements_by_type("Import", t)
    IN  [read EXCEPT ![KeyIndex(read, "Import")].nodes = <<new_import>> \o @]

\* the code tree after lines 311-316: the import of the moved class put at
\* position 0 of self.imports and the class removed
PruneOrigin(t, class_node, new_import) ==
    LET read == get_elements_by_type("Import", t)
        inserted == [read EXCEPT ![KeyIndex(read, "Import")].nodes = <<new_import>> \o @]
    IN  remove_class_from_code_tree(class_node, inserted)

\* the all_imports setter (lines 173-178)
set_all_imports(t, new_imports) ==
    set_elements_by_type("ImportFrom",
        set_elements_by_type("Import", t,
            SelectSeq(new_imports, LAMBDA n : n.kind = "Import")),
        SelectSeq(new_imports, LAMBDA n : n.kind = "ImportFrom"))

\* self.imports + self.import_froms, and the code tree after reading them
AllImportsRead(t) ==
    get_elements_by_type("ImportFrom", get_elements_by_type("Import", t))
all_imports(t) == Bucket(t, "Import") \o Bucket(t, "ImportFrom")

(***************************************************************************)
(* SourceFile.refactor, step by step                                       *)
(***************************************************************************)
History == <<runs, disk_start, path_start, after_first, extracted, skipped>>

\* lines 269-271: the file does not exist
RefactorNotFound ==
    /\ pc = "start"
    /\ ~is_exists(disk, path)
    /\ pc' = "done"
    /\ result' = "not_found"
    /\ UNCHANGED <<disk, path, loaded, tree, i, serial, History>>
    /\ UNCHANGED <<call, ret>>

\* line 276, move_to_module returns at line 245: nothing to rename
MoveToModuleSame ==
    /\ pc = "start"
    /\ is_exists(disk, path)
    /\ move_to_module(disk, path).status = "same"
    /\ pc' = "load"
    /\ UNCHANGED <<disk, path, loaded, tree, i, serial, result, History>>
    /\ UNCHANGED <<call, ret>>

\* line 276, move_to_module raises
MoveToModuleRaises ==
    /\ pc = "start"
    /\ is_exists(disk, path)
    /\ LET m == move_to_module(disk, path)
       IN  /\ m.status \in {"parse_error", "search_error"}
           /\ disk' = m.disk
           /\ path' = m.path
           /\ loaded' = m.loaded
           /\ tree' = m.tree
           /\ result' = m.status
    /\ pc' = "raised"
    /\ UNCHANGED <<i, serial, History>>
    /\ UNCHANGED <<call, ret>>

\* line 276, move_to_module renames the module
MoveToModuleMoved ==
    /\ pc = "start"
    /\ is_exists(disk, path)
    /\ LET m == move_to_module(disk, path)
       IN  /\ m.status = "moved"
           /\ disk' = m.disk
           /\ path' = m.path
           /\ loaded' = m.loaded
           /\ tree' = m.tree
    /\ pc' = "extract"
    /\ UNCHANGED <<i, serial, result, History>>
    /\ UNCHANGED <<call, ret>>

\* line 282, first read of self.classes: the code tree is loaded lazily
LoadCodeTree ==
    /\ pc = "load"
    /\ disk[path].ok
    /\ loaded' = TRUE
    /\ tree' = load_code_code_tree_from_code(disk[path].body)
    /\ pc' = "extract"
    /\ UNCHANGED <<disk, path, i, serial, result, History>>
    /\ UNCHANGED <<call, ret>>

LoadCodeTreeRaises ==
    /\ pc = "load"
    /\ ~disk[path].ok
    /\ pc' = "raised"
    /\ result' = "parse_error"
    /\ UNCHANGED <<disk, path, loaded, tree, i, serial, History>>
    /\ UNCHANGED <<call, ret>>

\* lines 282-302: the class at the cursor is left in place
ExtractSkip ==
    /\ pc = "extract"
    /\ i < Len(classes(tree))
    /\ LET class_node == classes(tree)[i + 1]
       IN  /\ LeftInPlace(path, target_file_path(class_node))
           /\ skipped' = Append(skipped, class_node.uid)
    /\ i' = i + 1
    /\ tree' = ClassesRead(tree)
    /\ UNCHANGED <<disk, path, loaded, serial, pc, result,
                   runs, disk_start, path_start, after_first, extracted>>
    /\ UNCHANGED <<call, ret>>

\* lines 282-323: the class at the cursor is moved to a file of its own
ExtractClass ==
    /\ pc = "extract"
    /\ i < Len(classes(tree))
    /\ LET class_node == classes(tree)[i + 1]
           class_name == class_node.name
           module_name == generate_module_name(class_name)
           target == target_file_path(class_node)
           made == Len(ClassSiblingNames(class_node, tree))
           class_code_tree ==
               generate_code_tree_for_class(class_node, tree, module_name, serial)
           written == save(disk, target, class_code_tree)
           new_import == create_import_from(module_name, class_name, serial + made + 1)
           dependant_files_paths == find_class_dependent_files(module_name, path, written)
       IN  /\ ~LeftInPlace(path, target)
           /\ tree' = PruneOrigin(TreeReadForClass(tree), class_node, new_import)
           /\ disk' = RewriteFiles(written, dependant_files_paths,
                         LAMBDA body : update_class_imports_in_file(
                                           body, class_name, module(path), module(target)))
           /\ serial' = serial + made + 1
           /\ extracted' = Append(extracted,
                 [class |-> Dump(class_node),
                  uid |-> class_node.uid,
                  target |-> target,
                  origin_module |-> module(path),
                  origin_imports |-> Dumps(all_imports(tree)),
                  file |-> generate_code_from_tree(class_code_tree)])
    /\ UNCHANGED <<path, loaded, i, pc, result,
                   runs, disk_start, path_start, after_first, skipped>>
    /\ UNCHANGED <<call, ret>>

\* lines 325-331: the import list is recomputed and the module saved
ReconcileImports ==
    /\ pc = "extract"
    /\ i >= Len(classes(tree))
    /\ LET read == AllImportsRead(ClassesRead(tree))
           required == get_code_tree_required_imports(read, all_imports(read))
       IN  \E new_imports \in ListsOf(required) :
              /\ tree' = set_all_imports(read, new_imports)
              /\ disk' = save(disk, path, set_all_imports(read, new_imports))
    /\ pc' = "done"
    /\ result' = "true"
    /\ UNCHANGED <<path, loaded, i, serial, History>>
    /\ UNCHANGED <<call, ret>>

\* refactor is invoked again on the module, through a new SourceFile
Rerun ==
    /\ pc = "done"
    /\ runs < MaxRuns
    /\ runs' = runs + 1
    /\ pc' = "start"
    /\ result' = "none"
    /\ loaded' = FALSE
    /\ tree' = <<>>
    /\ i' = 0
    /\ serial' = 0
    /\ disk_start' = disk
    /\ path_start' = path
    /\ after_first' = IF runs = 1 THEN disk ELSE after_first
    /\ extracted' = <<>>
    /\ skipped' = <<>>
    /\ UNCHANGED <<disk, path>>
    /\ UNCHANGED <<call, ret>>

Next ==
    \/ RefactorNotFound
    \/ MoveToModuleSame
    \/ MoveToModuleRaises
    \/ MoveToModuleMoved
    \/ LoadCodeTree
    \/ LoadCodeTreeRaises
    \/ ExtractSkip
    \/ ExtractClass
    \/ ReconcileImports
    \/ Rerun

Spec == Init /\ [][Next]_vars

(***************************************************************************)
(* Vocabulary of the properties                                            *)
(***************************************************************************)
\* the names an import statement binds in the module that holds it
BoundNames(imp) ==
    {IF imp.aliases[k].asname # NoName THEN imp.aliases[k].asname
     ELSE IF imp.kind = "Import" THEN SplitDotFirst(imp.aliases[k].name)
     ELSE imp.aliases[k].name : k \in DOMAIN imp.aliases}

\* the names a statement binds in the scope that holds it
StmtBinds(n) ==
    IF IsImportNode(n) THEN BoundNames(n)
    ELSE IF n.kind \in {"ClassDef", "FunctionDef"} THEN {n.name}
    ELSE Range(n.targets)

\* the names bound at the top level of a module body
TopLevelBound(body) == UNION {StmtBinds(body[k]) : k \in DOMAIN body}

\* the names a class defines itself: its own name and what its body binds
RECURSIVE DefinedInside(_)
DefinedInside(n) ==
    StmtBinds(n) \cup UNION {DefinedInside(n.body[j]) : j \in 1..Len(n.body)}

\* the identifiers a class refers to and does not define itself
FreeIds(class_node) == NameIds(class_node) \ DefinedInside(class_node)

ImportsOf(body) == SelectSeq(body, IsImportNode)
DeclarationsOf(body) == SelectSeq(body, LAMBDA n : ~IsImportNode(n))

\* the names referenced by the declarations of a module body
ReferencedIn(body) ==
    UNION {NameIds(DeclarationsOf(body)[k]) : k \in DOMAIN DeclarationsOf(body)}

\* the subject is a source file (fixed extension .py) that exists and parses
SubjectIsSource ==
    /\ EndsWith(path_start, PY)
    /\ path_start \in DOMAIN disk_start
    /\ disk_start[path_start].ok

Ended == pc \in {"done", "raised"}

\* a statement of the form `from mod import ..., name, ...` somewhere in body
ImportsNameFrom(body, name, mod) ==
    \E n \in Range(WalkStmts(body)) :
        /\ n.kind = "ImportFrom"
        /\ n.module = mod
        /\ \E k \in DOMAIN n.aliases : n.aliases[k].name = name

\* an import of module mod, or of a dotted path below it, somewhere in body
RefersToModule(name, mod) == name = mod \/ StartsWith(name, mod \o <<".">>)
ImportsModule(body, mod) ==
    \E n \in Range(WalkStmts(body)) :
        \/ n.kind = "Import"
           /\ \E k \in DOMAIN n.aliases : RefersToModule(n.aliases[k].name, mod)
        \/ n.kind = "ImportFrom" /\ n.module # <<>> /\ RefersToModule(n.module, mod)

\* the files of the tree other than p that parse
OtherSources(d, p) == {q \in DOMAIN d : q # p /\ d[q].ok}

\* two file trees hold the same files, each structurally equivalent
EquivalentTrees(d1, d2) ==
    /\ DOMAIN d1 = DOMAIN d2
    /\ \A q \in DOMAIN d1 :
          /\ d1[q].ok = d2[q].ok
          /\ d1[q].ok => compare_from_code(d1[q].body, d2[q].body)

(***************************************************************************)
(* Properties                                                              *)
(***************************************************************************)

\* C1: refactor is idempotent: when a second refactor of a source module has
\* ended, the file tree holds the same files as after the first, each
\* structurally equivalent (compare_from_code) to what it was then.
C1_RefactorIdempotent ==
    (runs = 2 /\ Ended /\ EndsWith(path_start, PY))
        => EquivalentTrees(disk, after_first)

\* C2: import completeness: every identifier an extracted class refers to
\* without defining it, and which the origin module bound at its top level
\* (by any form of import, or by a sibling class, function or assignment),
\* is bound by an import statement of the file written for the class.
C2_ImportCompleteness ==
    \A k \in DOMAIN extracted :
        (FreeIds(extracted[k].class) \cap TopLevelBound(disk_start[path_start].body))
            \subseteq TopLevelBound(ImportsOf(extracted[k].file))

\* C3: once refactor has finished, every other file that imported an
\* extracted class C from the origin module M imports C from normalize(C).
C3_ClassImportersRewritten ==
    pc = "done" =>
        \A k \in DOMAIN extracted :
            \A q \in OtherSources(disk_start, path_start) \cap DOMAIN disk :
                ImportsNameFrom(disk_start[q].body, extracted[k].class.name,
                                extracted[k].origin_module)
                    => ImportsNameFrom(disk[q].body, extracted[k].class.name,
                                       module(extracted[k].target))

\* the module of the subject differs from its normalised name
NeedsRename == module(path_start) # generate_module_name(module(path_start))
NormalizedPath == generate_module_name(module(path_start)) \o PY

\* C4: module rename completes: for a source module whose name is not
\* normalised, whatever else the directory holds, the module is never absent
\* from both the old and the normalised path, and when refactor has ended
\* there is no file at the old path and one at the normalised path.
C4_ModuleRenameCompletes ==
    (runs = 1 /\ SubjectIsSource /\ NeedsRename) =>
        /\ path_start \in DOMAIN disk \/ NormalizedPath \in DOMAIN disk
        /\ Ended => (path_start \notin DOMAIN disk /\ NormalizedPath \in DOMAIN disk)

\* C5: when refactor of a source module whose name is not normalised has
\* ended, no other file of the tree still imports the old module name (by a
\* plain import, a from-import or a dotted path below it).
C5_ModuleImportersRewritten ==
    (runs = 1 /\ SubjectIsSource /\ NeedsRename /\ Ended) =>
        \A q \in OtherSources(disk, path) :
            ~ImportsModule(disk[q].body, module(path_start))

\* the target path of a class equals the module's path up to letter case
SameUpToCase(p, q) == StrLower(p) = StrLower(q)
CursorCollides ==
    /\ pc = "extract"
    /\ i < Len(classes(tree))
    /\ SameUpToCase(path, generate_module_name(classes(tree)[i + 1].name) \o PY)

\* C6: collision safety: a step of the extraction loop on a class whose
\* target path equals the module's path, exactly or up to letter case,
\* writes no file, inserts no import, keeps the class list and advances the
\* cursor by one.
C6_CollisionSafety ==
    [][CursorCollides =>
          /\ disk' = disk
          /\ all_imports(tree') = all_imports(tree)
          /\ classes(tree') = classes(tree)
          /\ i' = i + 1]_vars

\* C6 witness: a class whose target path differs from the module's path only
\* by letter case has been passed by the cursor and is still in the class list
C6_Witness ==
    /\ pc = "extract"
    /\ i >= 1
    /\ i <= Len(classes(tree))
    /\ path # target_file_path(classes(tree)[i])
    /\ SameUpToCase(path, target_file_path(classes(tree)[i]))
    /\ skipped # <<>>

\* the imports of the origin module that bind a name the class refers to
ImportsUsedBy(class_node, imports) ==
    SelectSeq(imports, LAMBDA imp : BoundNames(imp) \cap NameIds(class_node) # {})

\* C7: the file written for an extracted class holds the class and, of the
\* origin module's import statements, exactly those that bind a name
\* referenced inside the class, and nothing else.
C7_ExtractedFileExact ==
    \A k \in DOMAIN extracted :
        /\ DeclarationsOf(extracted[k].file) = <<extracted[k].class>>
        /\ SameSorted(ImportsOf(extracted[k].file),
                      ImportsUsedBy(extracted[k].class, extracted[k].origin_imports))

\* no import statement of body binds only names no declaration of body uses
NoUnusedImport(body) ==
    \A k \in DOMAIN ImportsOf(body) :
        BoundNames(ImportsOf(body)[k]) \cap ReferencedIn(body) # {}

\* C8: import minimality: after refactor has returned, neither the module's
\* file nor the file of an extracted class holds an import statement none of
\* whose bound names is referenced by a declaration of that file.
C8_ImportMinimality ==
    (pc = "done" /\ result = "true") =>
        /\ NoUnusedImport(disk[path].body)
        /\ \A k \in DOMAIN extracted :
              (extracted[k].target \in DOMAIN disk /\ disk[extracted[k].target].ok)
                  => NoUnusedImport(disk[extracted[k].target].body)

\* C9: reconciliation drops only unreferenced imports: every import
\* statement of the module (of any form) that binds a name referenced by a
\* declaration still in the module is in the module's file after refactor.
C9_ReferencedImportsKept ==
    (pc = "done" /\ result = "true" /\ runs = 1) =>
        \A k \in DOMAIN ImportsOf(disk_start[path_start].body) :
            LET imp == ImportsOf(disk_start[path_start].body)[k]
            IN  BoundNames(imp) \cap ReferencedIn(disk[path].body) # {}
                    => imp \in Range(ImportsOf(disk[path].body))

\* C10: a failure on the subject file has no effect on the file tree: if the
\* file does not exist refactor returns false, if it does not parse refactor
\* raises the parse error, and in both cases the file tree is at every
\* moment the one refactor was called on.
C10_SubjectFailureHasNoEffect ==
    /\ path_start \notin DOMAIN disk_start =>
          /\ disk = disk_start
          /\ Ended => (pc = "done" /\ result = "not_found")
    /\ (path_start \in DOMAIN disk_start /\ ~disk_start[path_start].ok) =>
          /\ disk = disk_start
          /\ Ended => (pc = "raised" /\ result = "parse_error")

\* C10 witness: refactor of a file that does not parse and whose name is not
\* normalised has been aborted by the parse error in the rename step
C10_Witness ==
    /\ pc = "raised"
    /\ result = "parse_error"
    /\ NeedsRename
    /\ path_start \in DOMAIN disk

(***************************************************************************)
(* The helpers called on their own                                         *)
(***************************************************************************)
SourceFileVars == <<disk, path, loaded, tree, i, serial, pc, result, runs,
                    disk_start, path_start, after_first, extracted, skipped>>

\* no SourceFile takes part in the call of a helper
NoSourceFile ==
    /\ disk = <<>>
    /\ path = <<>>
    /\ loaded = FALSE
    /\ tree = <<>>
    /\ i = 0
    /\ serial = 0
    /\ pc = "helper"
    /\ result = "none"
    /\ runs = 0
    /\ disk_start = <<>>
    /\ path_start = <<>>
    /\ after_first = <<>>
    /\ extracted = <<>>
    /\ skipped = <<>>

\* every string over the characters of S with at most n characters
Strings(S, n) == UNION {[1..k -> S] : k \in 0..n}

(***************************************************************************)
(* to_snake_case called on a name, and again on what it returned           *)
(***************************************************************************)
MaxName == 4        \* most characters of an enumerated name

\* a lowercase letter, two uppercase letters, a digit, the underscore, the
\* hyphen, a space and a special character
NameChars == {"a", "A", "B", "1", "_", "-", " ", "!"}

\* the names of tests/test_snake_case.py with the results it expects
TestNames ==
    <<
      <<<<"_", "_", "i", "n", "i", "t", "_", "_">>,
        <<"_", "_", "i", "n", "i", "t", "_", "_">>>>,
      <<<<"_", "_", "I", "n", "i", "t", "_", "_">>,
        <<"_", "_", "i", "n", "i", "t", "_", "_">>>>,
      <<<<"_", "_", "I", "N", "I", "T", "_", "_">>,
        <<"_", "_", "i", "n", "i", "t", "_", "_">>>>,
      <<<<"_", "_", "I", "N", "I", "T", "o", "k", "_", "_">>,
        <<"_", "_", "i", "n", "i", "_", "t", "o", "k", "_", "_">>>>,
      <<<<"_", "_", "I", "N", "I", "T", "_", "o", "k", "_", "_">>,
        <<"_", "_", "i", "n", "i", "t", "_", "o", "k", "_", "_">>>>,
      <<<<"T", "o", "t", "o">>,
        <<"t", "o", "t", "o">>>>,
      <<<<"T", "o", "t", "o", "T", "a", "t", "a">>,
        <<"t", "o", "t", "o", "_", "t", "a", "t", "a">>>>,
      <<<<"T", "o", "t", "o", "T", "A", "T", "A", "t", "i", "t", "i">>,
        <<"t", "o", "t", "o", "_", "t", "a", "t", "_", "a", "t", "i", "t", "i">>>>,
      <<<<"H", "e", "l", "l", "o", "W", "o", "r", "l", "d">>,
        <<"h", "e", "l", "l", "o", "_", "w", "o", "r", "l", "d">>>>,
      <<<<"X", "M", "L", "H", "t", "t", "p", "R", "e", "q", "u", "e", "s", "t">>,
        <<"x", "m", "l", "_", "h", "t", "t", "p", "_", "r", "e", "q", "u", "e", "s", "t">>>>,
      <<<<"g", "e", "t", "H", "T", "T", "P", "R", "e", "s", "p", "o", "n", "s", "e", "C", "o", "d", "e">>,
        <<"g", "e", "t", "_", "h", "t", "t", "p", "_", "r", "e", "s", "p", "o", "n", "s", "e", "_", "c", "o", "d", "e">>>>,
      <<<<"g", "e", "t", "2", "H", "T", "T", "P", "R", "e", "s", "p", "o", "n", "s", "e", "s">>,
        <<"g", "e", "t", "2", "_", "h", "t", "t", "p", "_", "r", "e", "s", "p", "o", "n", "s", "e", "s">>>>,
      <<<<"g", "e", "t", "H", "T", "T", "P", "2", "R", "e", "s", "p", "o", "n", "s", "e", "s">>,
        <<"g", "e", "t", "_", "h", "t", "t", "p", "2", "_", "r", "e", "s", "p", "o", "n", "s", "e", "s">>>>,
      <<<<"a", "l", "r", "e", "a", "d", "y", "_", "s", "n", "a", "k", "e", "_", "c", "a", "s", "e">>,
        <<"a", "l", "r", "e", "a", "d", "y", "_", "s", "n", "a", "k", "e", "_", "c", "a", "s", "e">>>>,
      <<<<"T", "h", "i", "s", "I", "s", "A", "T", "e", "s", "t">>,
        <<"t", "h", "i", "s", "_", "i", "s", "_", "a", "_", "t", "e", "s", "t">>>>,
      <<<<"A">>,
        <<"a">>>>,
      <<<<"A", "A">>,
        <<"a", "a">>>>,
      <<<<"A", "A", "A">>,
        <<"a", "a", "a">>>>,
      <<<<"a", "a", "a", "A", "A", "A">>,
        <<"a", "a", "a", "_", "a", "a", "a">>>>,
      <<<<"H", "e", "l", "l", "o", "_", "_", "W", "o", "r", "l", "d">>,
        <<"h", "e", "l", "l", "o", "_", "w", "o", "r", "l", "d">>>>,
      <<<<"H", "e", "l", "l", "o", "-", "W", "o", "r", "l", "d">>,
        <<"h", "e", "l", "l", "o", "_", "w", "o", "r", "l", "d">>>>,
      <<<<"M", "J", "_", "i", "s", "_", "a", "B", "o", "y", "W", "i", "t", "h", "2", "L", "e", "g", "s">>,
        <<"m", "j", "_", "i", "s", "_", "a", "_", "b", "o", "y", "_", "w", "i", "t", "h", "2", "_", "l", "e", "g", "s">>>>
    >>

TestInputs == {TestNames[k][1] : k \in DOMAIN TestNames}
Expected(name) == TestNames[CHOOSE k \in DOMAIN TestNames : TestNames[k][1] = name][2]

NormaliserInputs == {None} \cup Strings(NameChars, MaxName) \cup TestInputs

InitSnake ==
    /\ NoSourceFile
    /\ \E name \in NormaliserInputs : call = [name |-> name]
    /\ ret = <<>>

\* to_snake_case(name)
ToSnakeCase ==
    /\ ret = <<>>
    /\ ret' = <<to_snake_case(call.name)>>
    /\ UNCHANGED <<call, SourceFileVars>>

\* to_snake_case(to_snake_case(name))
ToSnakeCaseAgain ==
    /\ Len(ret) = 1
    /\ ret' = Append(ret, to_snake_case(ret[1]))
    /\ UNCHANGED <<call, SourceFileVars>>

NextSnake ==
    \/ ToSnakeCase
    \/ ToSnakeCaseAgain

SpecSnake == InitSnake /\ [][NextSnake]_vars

\* C11: the normaliser is idempotent: normalising what it returned returns
\* the same string again, for every input.
C11_NormaliserIdempotent ==
    Len(ret) = 2 => ret[2] = ret[1]

\* C11 witness: a name with punctuation at both ends and a mixed-case run,
\* changed by the first call, has been normalised twice
C11_Witness ==
    /\ Len(ret) = 2
    /\ call.name # None
    /\ ret[1] # call.name
    /\ Len(call.name) >= 3
    /\ ~IsAlnum(call.name[1])
    /\ ~IsAlnum(call.name[Len(call.name)])
    /\ \E k \in DOMAIN call.name : IsUpper(call.name[k])

\* the characters of a stripped name before its first alphanumeric character,
\* from the first to the last one, and after the last one
AlnumAt(name) == {k \in 1..Len(name) : IsAlnum(name[k])}
Lead(name) == SubSeq(name, 1, Min(AlnumAt(name)) - 1)
Inner(name) == SubSeq(name, Min(AlnumAt(name)), Max(AlnumAt(name)))
Trail(name) == SubSeq(name, Max(AlnumAt(name)) + 1, Len(name))
AllOf(str, P(_)) == \A k \in DOMAIN str : P(str[k])

\* C12: the normaliser tokenises as specified: the names of the test table
\* give the expected results; the characters around the first and the last
\* alphanumeric character are kept; between them the result holds the
\* letters and digits of the name in order, lower-cased, in tokens joined by
\* single underscores, none of them empty; a capitalised word is one token;
\* a run of uppercase letters before a lowercase one gives up its last letter
\* to the next token; a digit never starts a token after a letter.
C12_NormaliserTokenises ==
    (Len(ret) >= 1 /\ call.name # None) =>
        /\ call.name \in TestInputs => ret[1] = Expected(call.name)
        /\ LET name == Strip(call.name)
           IN  AlnumAt(name) # {} =>
                 LET out == ret[1]
                     core == SubSeq(out, Len(Lead(name)) + 1, Len(out) - Len(Trail(name)))
                     inner == Inner(name)
                 IN  /\ Len(out) >= Len(Lead(name)) + Len(Trail(name))
                     /\ StartsWith(out, Lead(name))
                     /\ EndsWith(out, Trail(name))
                     /\ SelectSeq(core, IsAlnum) = StrLower(SelectSeq(inner, IsAlnum))
                     /\ AllOf(core, LAMBDA c : IsLower(c) \/ IsDigit(c) \/ c = "_")
                     /\ core[1] # "_"
                     /\ core[Len(core)] # "_"
                     /\ \A k \in 1..(Len(core) - 1) : ~(core[k] = "_" /\ core[k + 1] = "_")
                     /\ (IsUpper(inner[1]) /\ AllOf(Tail(inner), IsLower))
                            => core = StrLower(inner)
                     /\ \A n \in 2..(Len(inner) - 1) :
                            (/\ AllOf(SubSeq(inner, 1, n), IsUpper)
                             /\ AllOf(SubSeq(inner, n + 1, Len(inner)), IsLower))
                            => core = StrLower(SubSeq(inner, 1, n - 1)) \o <<"_">>
                                        \o StrLower(SubSeq(inner, n, Len(inner)))
                     /\ AllOf(inner, IsAlnum) =>
                            \A k \in 1..(Len(core) - 1) :
                                ~(core[k] = "_" /\ IsDigit(core[k + 1])
                                    /\ \E j \in 1..(k - 1) : ~IsDigit(core[j]))

\* C13: the absent identifier, the empty string and every string of
\* whitespace only are returned exactly as they were passed.
C13_NoIdentifierPassesThrough ==
    (Len(ret) >= 1 /\ (call.name = None \/ AllOf(call.name, IsSpace)))
        => ret[1] = call.name

(***************************************************************************)
(* compare_from_code called on two texts                                   *)
(***************************************************************************)
MaxText == 3        \* most statements of a compared text

\* a statement and the statements below it, placed at a line of the text
RECURSIVE AtLine(_, _, _)
AtLine(node, line, gap) ==
    [node EXCEPT !.lineno = line,
                 !.body = [j \in 1..Len(node.body) |->
                              AtLine(node.body[j], line + j * gap, gap)]]

\* the text of a module body written with gap - 1 blank lines between lines
Layout(body, gap) == [k \in 1..Len(body) |-> AtLine(body[k], 4 * k * gap, gap)]

\* class Foo: a = os / class Bar: a = os / K = 1 / def f(): y = hlp(utl)
ComparePool ==
    { ClassDef(n_Foo, {}, <<Assign(n_a, {n_os})>>),
      ClassDef(n_Bar, {}, <<Assign(n_a, {n_os})>>),
      Assign(n_K, {}),
      FunctionDef(n_f, <<Assign(n_y, {n_helper, n_util})>>) }

CompareBodies == Strings(ComparePool, MaxText)

InitCompare ==
    /\ NoSourceFile
    /\ \E left \in CompareBodies, right \in CompareBodies, gap \in {1, 2} :
          call = [left_code |-> Layout(left, 1), right_code |-> Layout(right, gap)]
    /\ ret = <<>>

\* compare_from_code(left_code, right_code)
CompareFromCode ==
    /\ ret = <<>>
    /\ ret' = <<compare_from_code(call.left_code, call.right_code)>>
    /\ UNCHANGED <<call, SourceFileVars>>

NextCompare == CompareFromCode

SpecCompare == InitCompare /\ [][NextCompare]_vars

\* the Code Index of a text, the kinds it holds and, for a kind, how often a
\* structural fingerprint occurs in it
CodeIndex(code) == load_code_code_tree_from_code(code)
Fingerprints(index, kind) == Dumps(Bucket(index, kind))
SameIndex(l, r) ==
    /\ Keys(l) = Keys(r)
    /\ \A kind \in Keys(l) :
          \A x \in Range(Fingerprints(l, kind)) \cup Range(Fingerprints(r, kind)) :
              Count(Fingerprints(l, kind), x) = Count(Fingerprints(r, kind), x)

\* the two texts hold the same statements in the same order
SameStatements(left_code, right_code) == Dumps(left_code) = Dumps(right_code)

\* the names of the top-level declarations of a text
DeclaredNames(code) == {code[k].name : k \in DOMAIN code}

\* C14: the comparator returns true exactly when the two Code Indexes have
\* the same kinds and, for every kind, the same multiset of fingerprints;
\* so a text is equivalent to itself and to the same statements laid out
\* differently, and texts that declare different names or differ in the
\* number of entries of a kind are not equivalent.
C14_ComparatorExact ==
    Len(ret) = 1 =>
        LET l == CodeIndex(call.left_code)
            r == CodeIndex(call.right_code)
        IN  /\ ret[1] <=> SameIndex(l, r)
            /\ SameStatements(call.left_code, call.right_code) => ret[1]
            /\ DeclaredNames(call.left_code) # DeclaredNames(call.right_code) => ~ret[1]
            /\ (\E kind \in Keys(l) \cup Keys(r) :
                   Len(Bucket(l, kind)) # Len(Bucket(r, kind))) => ~ret[1]

\* C14 witness: the same statements, one of them with a nested statement,
\* laid out on different lines have been compared and found equivalent
C14_Witness ==
    /\ Len(ret) = 1
    /\ ret[1]
    /\ Len(call.left_code) = 2
    /\ call.left_code # call.right_code
    /\ SameStatements(call.left_code, call.right_code)
    /\ \E k \in DOMAIN call.left_code : call.left_code[k].kind = "FunctionDef"

\* right_code is left_code with two statements of the same kind exchanged
SwappedSameKind(left_code, right_code) ==
    /\ Len(left_code) = Len(right_code)
    /\ \E a, b \in DOMAIN left_code :
          /\ a < b
          /\ left_code[a].kind = left_code[b].kind
          /\ Dump(left_code[a]) # Dump(left_code[b])
          /\ Dumps(right_code) = [Dumps(left_code) EXCEPT ![a] = Dump(left_code[b]),
                                                          ![b] = Dump(left_code[a])]

\* C15: two texts that differ only in the relative order of two top-level
\* statements of the same kind are reported equivalent.
C15_OrderWithinKindIgnored ==
    (Len(ret) = 1 /\ SwappedSameKind(call.left_code, call.right_code)) => ret[1]

\* C15 witness: two different classes, exchanged, with a third statement
\* between them, have been compared
C15_Witness ==
    /\ Len(ret) = 1
    /\ Len(call.left_code) = 3
    /\ call.left_code[1].kind = "ClassDef"
    /\ call.left_code[2].kind # "ClassDef"
    /\ call.left_code[3].kind = "ClassDef"
    /\ SwappedSameKind(call.left_code, call.right_code)
    /\ ret[1]

(***************************************************************************)
(* The dependency resolvers called on a class or a code tree and a list    *)
(* of candidate imports                                                    *)
(***************************************************************************)
MaxCandidates == 3  \* most import statements in a candidate list

\* import os / import os, num / import num as np / from pkg import utl /
\* from . import hlp
CandidatePool ==
    { Import(n_os, NoName),
      Node("Import", NoName, <<>>, 0, <<Alias(n_os, NoName), Alias(n_numpy, NoName)>>,
           <<>>, {}, <<>>),
      Import(n_numpy, n_np),
      ImportFrom(n_pkg, 0, <<n_util>>),
      ImportFrom(<<>>, 1, <<n_helper>>) }

\* class Foo: a = os / class Bar(Foo): b = np / class Bar: a = os(num, utl)
ResolvedClasses ==
    { ClassDef(n_Foo, {}, <<Assign(n_a, {n_os})>>),
      ClassDef(n_Bar, {n_Foo}, <<Assign(n_b, {n_np})>>),
      ClassDef(n_Bar, {}, <<Assign(n_a, {n_os, n_numpy, n_util})>>) }

\* the candidate lists: different import statements in any order
CandidateLists ==
    {c \in Strings(CandidatePool, MaxCandidates) :
        \A a, b \in DOMAIN c : a # b => c[a] # c[b]}

InitResolve ==
    /\ NoSourceFile
    /\ \E c \in CandidateLists, cls \in ResolvedClasses :
          LET body == ParseBody(c \o <<cls>>)
          IN  call = [code_tree |-> load_code_code_tree_from_code(c \o <<cls>>),
                      class_node |-> body[Len(body)],
                      imports |-> SubSeq(body, 1, Len(c))]
    /\ ret = <<>>

\* get_class_required_imports(class_node, imports)
GetClassRequiredImports ==
    /\ ret = <<>>
    /\ ret' = <<[by |-> "class",
                 imports |-> get_class_required_imports(call.class_node, call.imports)]>>
    /\ UNCHANGED <<call, SourceFileVars>>

\* get_code_tree_required_imports(code_tree, imports)
GetCodeTreeRequiredImports ==
    /\ ret = <<>>
    /\ \E required \in ListsOf(get_code_tree_required_imports(call.code_tree, call.imports)) :
          ret' = <<[by |-> "code_tree", imports |-> required]>>
    /\ UNCHANGED <<call, SourceFileVars>>

NextResolve ==
    \/ GetClassRequiredImports
    \/ GetCodeTreeRequiredImports

SpecResolve == InitResolve /\ [][NextResolve]_vars

\* sub holds members of full, each once, in the order they have in full
OrderedSubsetOf(sub, full) ==
    sub = SelectSeq(full, LAMBDA c : c \in Range(sub))

\* C16: what either resolver returns is a subsequence of the candidate
\* list: each selected candidate once, in candidate order.
C16_ResolverOrderPreserving ==
    Len(ret) = 1 => OrderedSubsetOf(ret[1].imports, call.imports)

(***************************************************************************)
(* get_class_dependencies called on a class and the code tree of its       *)
(* module                                                                  *)
(***************************************************************************)
MaxSiblings == 3    \* most statements of the module besides the class

\* import os / from pkg import utl / K = utl / def f(): y = os(K) /
\* def g(): y = f
SiblingPool ==
    { Import(n_os, NoName),
      ImportFrom(n_pkg, 0, <<n_util>>),
      Assign(n_K, {n_util}),
      FunctionDef(n_f, <<Assign(n_y, {n_os, n_K})>>),
      FunctionDef(<<"g">>, <<Assign(n_y, {n_f})>>) }

\* class Foo: a = f / class Bar: b = g
DependentClasses ==
    { ClassDef(n_Foo, {}, <<Assign(n_a, {n_f})>>),
      ClassDef(n_Bar, {}, <<Assign(n_b, {<<"g">>})>>) }

SiblingLists ==
    {c \in Strings(SiblingPool, MaxSiblings) :
        \A a, b \in DOMAIN c : a # b => c[a] # c[b]}

InitClosure ==
    /\ NoSourceFile
    /\ \E c \in SiblingLists, cls \in DependentClasses :
          LET t == load_code_code_tree_from_code(c \o <<cls>>)
          IN  call = [class_node |-> classes(t)[1],
                      code_tree |-> t,
                      body |-> ParseBody(c \o <<cls>>)]
    /\ ret = <<>>

\* get_class_dependencies(class_node, code_tree)
GetClassDependencies ==
    /\ ret = <<>>
    /\ ret' = <<get_class_dependencies(call.class_node, call.code_tree)>>
    /\ UNCHANGED <<call, SourceFileVars>>

NextClosure == GetClassDependencies

SpecClosure == InitClosure /\ [][NextClosure]_vars

\* the top-level statements of the module other than its classes, and the
\* statements of a closure
SiblingsOf(body) == SelectSeq(body, LAMBDA n : n.kind # "ClassDef")
ClosureNodes(closure) ==
    UNION {Range(closure[b].nodes) : b \in DOMAIN closure}

\* C17: the closure of a class is a fixed point: an import or a sibling of
\* the module that binds a name referenced by a sibling in the closure is in
\* the closure too, also when the class itself does not refer to it.
C17_ClosureIsFixedPoint ==
    Len(ret) = 1 =>
        \A s \in ClosureNodes(ret[1]) :
            s.kind \in {"FunctionDef", "Assign"} =>
                \A k \in DOMAIN SiblingsOf(call.body) :
                    LET d == SiblingsOf(call.body)[k]
                    IN  StmtBinds(d) \cap NameIds(s) # {} => d \in ClosureNodes(ret[1])

(***************************************************************************)
(* The import rewriters called on the file of an importer                  *)
(***************************************************************************)
MaxImporter == 2    \* most statements in the file of an importer

n_m == <<"m">>
n_mx == <<"m", "x">>
n_m_x == <<"m", ".", "x">>
n_foo == <<"f", "o", "o">>

\* from m import Foo, K / from m import K / import m / import mx /
\* import m.x / from mx import Foo / from m.x import Foo / K = 1
ImporterPool ==
    { ImportFrom(n_m, 0, <<n_Foo, n_K>>),
      ImportFrom(n_m, 0, <<n_K>>),
      Import(n_m, NoName),
      Import(n_mx, NoName),
      Import(n_m_x, NoName),
      ImportFrom(n_mx, 0, <<n_Foo>>),
      ImportFrom(n_m_x, 0, <<n_Foo>>),
      Assign(n_K, {}) }

InitRewrite ==
    /\ NoSourceFile
    /\ \E body \in Strings(ImporterPool, MaxImporter) :
          call = [body |-> body, class_name |-> n_Foo,
                  previous_module_name |-> n_m, new_module_name |-> n_foo]
    /\ ret = <<>>

\* update_class_imports_in_file(path, class_name, previous, new): the file
\* it writes
UpdateClassImportsInFile ==
    /\ ret = <<>>
    /\ ret' = <<[by |-> "class",
                 body |-> update_class_imports_in_file(call.body, call.class_name,
                              call.previous_module_name, call.new_module_name)]>>
    /\ UNCHANGED <<call, SourceFileVars>>

\* update_module_imports_in_file(path, previous, new): the file it writes
UpdateModuleImportsInFile ==
    /\ ret = <<>>
    /\ ret' = <<[by |-> "module",
                 body |-> update_module_imports_in_file(call.body,
                              call.previous_module_name, call.new_module_name)]>>
    /\ UNCHANGED <<call, SourceFileVars>>

NextRewrite ==
    \/ UpdateClassImportsInFile
    \/ UpdateModuleImportsInFile

SpecRewrite == InitRewrite /\ [][NextRewrite]_vars

\* the names a body imports from module mod by a from-import
NamesFrom(body, mod) ==
    UNION {{body[k].aliases[j].name : j \in DOMAIN body[k].aliases} :
              k \in {q \in DOMAIN body : body[q].kind = "ImportFrom" /\ body[q].module = mod}}

\* C18: the class-import rewriter moves only class_name: every other name
\* the file imported from old_module is still imported from old_module, and
\* the file holds the same statements of the same kinds in the same order,
\* those that are no imports unchanged.
C18_ClassRewriteMovesOnlyTheClass ==
    (Len(ret) = 1 /\ ret[1].by = "class") =>
        /\ NamesFrom(call.body, call.previous_module_name) \ {call.class_name}
              \subseteq NamesFrom(ret[1].body, call.previous_module_name)
        /\ Len(ret[1].body) = Len(call.body)
        /\ \A k \in DOMAIN call.body :
              /\ ret[1].body[k].kind = call.body[k].kind
              /\ ~IsImportNode(call.body[k]) => ret[1].body[k] = call.body[k]

\* C19: the module-import rewriter changes a module reference only when it
\* is old_module or a dotted path below old_module: every other import, also
\* of a module whose name only begins with the characters of old_module, and
\* every other statement is unchanged.
C19_ModuleRewriteMatchesWholeNames ==
    (Len(ret) = 1 /\ ret[1].by = "module") =>
        /\ Len(ret[1].body) = Len(call.body)
        /\ \A k \in DOMAIN call.body :
              LET old == call.body[k]
                  new == ret[1].body[k]
              IN  /\ old.kind = "Import" =>
                        \A j \in DOMAIN old.aliases :
                            ~RefersToModule(old.aliases[j].name, call.previous_module_name)
                                => new.aliases[j] = old.aliases[j]
                  /\ (old.kind = "ImportFrom"
                        /\ ~RefersToModule(old.module, call.previous_module_name))
                        => new = old
                  /\ ~IsImportNode(old) => new = old

(***************************************************************************)
(* should_delete_file_from_code_tree called on a code tree the index       *)
(* operations have worked on                                               *)
(***************************************************************************)
\* the kinds the getters of SourceFile ask the code tree for
IndexedKinds == {"Import", "ImportFrom", "ClassDef", "FunctionDef", "Assign"}

\* code_analyze_helper.should_delete_file_from_code_tree; get_from_imports
\* is the getter of the ImportFrom list.  The tree after the two getters
\* holds both import keys.
should_delete_file_from_code_tree(code_tree) ==
    IF code_tree = <<>> THEN TRUE
    ELSE LET t == get_elements_by_type("ImportFrom",
                      get_elements_by_type("Import", code_tree))
             imports == Bucket(t, "Import")
             from_imports == Bucket(t, "ImportFrom")
         IN  \A b \in DOMAIN t :
                 ~(t[b].nodes # imports /\ t[b].nodes # from_imports)

InitDelete ==
    /\ NoSourceFile
    /\ \E body \in SubjectBodies :
          call = [code_tree |-> load_code_code_tree_from_code(body)]
    /\ ret = <<>>

\* a getter of the index reads the list of a kind
GetElementsByType ==
    /\ ret = <<>>
    /\ \E kind \in IndexedKinds :
          /\ kind \notin Keys(call.code_tree)
          /\ call' = [call EXCEPT !.code_tree = get_elements_by_type(kind, @)]
    /\ UNCHANGED <<ret, SourceFileVars>>

\* remove_class_from_code_tree(class_node, code_tree)
RemoveClassFromCodeTree ==
    /\ ret = <<>>
    /\ \E k \in DOMAIN classes(call.code_tree) :
          call' = [call EXCEPT !.code_tree =
                      remove_class_from_code_tree(classes(call.code_tree)[k], @)]
    /\ UNCHANGED <<ret, SourceFileVars>>

\* should_delete_file_from_code_tree(code_tree)
ShouldDeleteFileFromCodeTree ==
    /\ ret = <<>>
    /\ ret' = <<should_delete_file_from_code_tree(call.code_tree)>>
    /\ UNCHANGED <<call, SourceFileVars>>

NextDelete ==
    \/ GetElementsByType
    \/ RemoveClassFromCodeTree
    \/ ShouldDeleteFileFromCodeTree

SpecDelete == InitDelete /\ [][NextDelete]_vars

\* the code tree holds no declaration other than import statements
OnlyImports(code_tree) ==
    \A b \in DOMAIN code_tree :
        code_tree[b].kind \in {"Import", "ImportFrom"} \/ code_tree[b].nodes = <<>>

\* C20: should_delete_file_from_code_tree returns true exactly when the code
\* tree holds no declaration other than import and from-import statements,
\* also when a kind that is no import is present with an empty list.
C20_DeleteExactlyWhenOnlyImports ==
    Len(ret) = 1 => (ret[1] <=> OnlyImports(call.code_tree))

(***************************************************************************)
(* refactor run on modules whose classes share a target module, need a     *)
(* sibling, or are declared inside a function, in every statement order,   *)
(* with and without a file already at the target path of a class           *)
(***************************************************************************)
MaxModule == 3      \* most statements in such a module

n_FOO == <<"F", "O", "O">>
n_Baz == <<"B", "a", "z">>
n_X == <<"X">>

\* import os / K = 1 / class Foo: a = K / class FOO: b = os
\* def f(): class Baz: y = 1
ModulePool ==
    { Import(n_os, NoName),
      Assign(n_K, {}),
      ClassDef(n_Foo, {}, <<Assign(n_a, {n_K})>>),
      ClassDef(n_FOO, {}, <<Assign(n_b, {n_os})>>),
      FunctionDef(n_f, <<ClassDef(n_Baz, {}, <<Assign(n_y, {})>>)>>) }

\* the statements of the pool, each at most once, in any order
ModuleBodies ==
    {b \in Strings(ModulePool, MaxModule) :
        \A j, k \in DOMAIN b : j # k => b[j] # b[k]}

\* m.py / foo.py / Ab.py
ModulePaths == { <<"m">> \o PY, <<"f", "o", "o">> \o PY, <<"A", "b">> \o PY }

p_foo == <<"f", "o", "o">> \o PY

\* the directory beside the subject: empty, foo.py holding X = 1, bad.py
\* that does not parse
NeighbourFiles(subject) ==
    { [q \in S |-> IF q = p_foo THEN Source(<<Assign(n_X, {})>>) ELSE Unparseable] :
        S \in {{}, {p_foo} \ {subject}, {p_bad}} }

ModuleScenarios ==
    UNION { UNION {
        {[disk |-> WithSubject(o, sp, Source(b)), subject |-> sp] : b \in ModuleBodies}
        \cup {[disk |-> WithSubject(o, sp, Unparseable), subject |-> sp]}
        \cup {[disk |-> o, subject |-> sp]}
      : o \in NeighbourFiles(sp)} : sp \in ModulePaths }

InitModule ==
    \E sc \in ModuleScenarios :
        /\ disk = sc.disk
        /\ path = sc.subject
        /\ loaded = FALSE
        /\ tree = <<>>
        /\ i = 0
        /\ serial = 0
        /\ pc = "start"
        /\ result = "none"
        /\ runs = 1
        /\ disk_start = sc.disk
        /\ path_start = sc.subject
        /\ after_first = <<>>
        /\ extracted = <<>>
        /\ skipped = <<>>
        /\ call = <<>>
        /\ ret = <<>>

SpecModule == InitModule /\ [][Next]_vars

\* the class list of the module when the extraction loop of the call starts
StartClasses == classes(load_code_code_tree_from_code(disk_start[path_start].body))

\* refactor has returned true
Completed == pc = "done" /\ result = "true"

\* the file at path q of file tree d declares the class at its top level
Declares(d, q, class_node) ==
    /\ q \in DOMAIN d
    /\ d[q].ok
    /\ \E k \in DOMAIN d[q].body : d[q].body[k] = Dump(class_node)

\* C21: no class is lost by refactor: after refactor of a module has
\* completed, every class that was in the module's class list when the
\* extraction started is declared in exactly one file on disk, the origin
\* module or the file at the class's target path, also when two classes of
\* the module have the same target module name.
C21_NoClassLost ==
    Completed =>
        \A k \in DOMAIN StartClasses :
            Cardinality({q \in {path, target_file_path(StartClasses[k])} :
                            Declares(disk, q, StartClasses[k])}) = 1

(***************************************************************************)
(* The operations of the code tree applied, one after the other, to the    *)
(* code tree built from a source text.  ret is the log of the operations:  *)
(* records [op, kind, before, after], before and after being the list of   *)
(* the kind before and after the operation ("render": after is the code).  *)
(***************************************************************************)
MaxOps == 3         \* most operations on one code tree, the build included

IndexedBodies == SubjectBodies \cup ModuleBodies

\* set_elements_by_type called with the list its own getter returned, as in
\* `source_file.imports = source_file.imports`: elements and new_elements
\* are one list, clear() empties it and extend() adds nothing (lines 682-684)
set_elements_by_type_live(kind, code_tree) ==
    set_elements_by_type(kind, code_tree, <<>>)

Logged(op, kind, before, after) ==
    [op |-> op, kind |-> kind, before |-> before, after |-> after]

InitIndex ==
    /\ NoSourceFile
    /\ \E body \in IndexedBodies : call = [code |-> body, code_tree |-> <<>>]
    /\ ret = <<>>

\* load_code_code_tree_from_code(code)
LoadCodeCodeTreeFromCode ==
    /\ ret = <<>>
    /\ call' = [call EXCEPT !.code_tree = load_code_code_tree_from_code(call.code)]
    /\ ret' = <<Logged("load", "", <<>>, <<>>)>>
    /\ UNCHANGED SourceFileVars

\* a getter: get_elements_by_type(kind, code_tree)
ReadElements ==
    /\ 0 < Len(ret) /\ Len(ret) < MaxOps
    /\ \E kind \in IndexedKinds :
          /\ call' = [call EXCEPT !.code_tree = get_elements_by_type(kind, @)]
          /\ ret' = Append(ret, Logged("get", kind, Bucket(call.code_tree, kind),
                                       Bucket(call.code_tree, kind)))
    /\ UNCHANGED SourceFileVars

\* remove_class_from_code_tree(class_node, code_tree)
RemoveClass ==
    /\ 0 < Len(ret) /\ Len(ret) < MaxOps
    /\ \E k \in DOMAIN classes(call.code_tree) :
          LET t == remove_class_from_code_tree(classes(call.code_tree)[k],
                                               call.code_tree)
          IN  /\ call' = [call EXCEPT !.code_tree = t]
              /\ ret' = Append(ret, Logged("remove", "ClassDef",
                                           classes(call.code_tree), classes(t)))
    /\ UNCHANGED SourceFileVars

\* a setter given a new list: the list of the kind without one of its nodes
SetElementsByType ==
    /\ 0 < Len(ret) /\ Len(ret) < MaxOps
    /\ \E kind \in Keys(call.code_tree) :
          \E j \in DOMAIN Bucket(call.code_tree, kind) :
              LET old == Bucket(call.code_tree, kind)
                  new_elements == [k \in 1..(Len(old) - 1) |->
                                      IF k < j THEN old[k] ELSE old[k + 1]]
              IN  /\ call' = [call EXCEPT !.code_tree =
                                 set_elements_by_type(kind, @, new_elements)]
                  /\ ret' = Append(ret, Logged("set", kind, old, new_elements))
    /\ UNCHANGED SourceFileVars

\* a setter given the list its getter returned
SetElementsByTypeLive ==
    /\ 0 < Len(ret) /\ Len(ret) < MaxOps
    /\ \E kind \in IndexedKinds :
          LET t == set_elements_by_type_live(kind, call.code_tree)
          IN  /\ call' = [call EXCEPT !.code_tree = t]
              /\ ret' = Append(ret, Logged("set_live", kind,
                                           Bucket(call.code_tree, kind),
                                           Bucket(t, kind)))
    /\ UNCHANGED SourceFileVars

\* generate_code_from_tree(code_tree)
GenerateCodeFromTree ==
    /\ 0 < Len(ret) /\ Len(ret) < MaxOps
    /\ ret' = Append(ret, Logged("render", "", <<>>,
                                 generate_code_from_tree(call.code_tree)))
    /\ UNCHANGED <<call, SourceFileVars>>

NextIndex ==
    \/ LoadCodeCodeTreeFromCode
    \/ ReadElements
    \/ RemoveClass
    \/ SetElementsByType
    \/ SetElementsByTypeLive
    \/ GenerateCodeFromTree

SpecIndex == InitIndex /\ [][NextIndex]_vars

\* the nodes kept in the lists of a code tree
KeptNodes(code_tree) ==
    UNION {Range(code_tree[b].nodes) : b \in DOMAIN code_tree}

\* node n is a statement somewhere below node m
NestedIn(n, m) == n.uid # m.uid /\ n.uid \in WalkUids(m)

\* C22: in the code tree built from a source text, no kept node is nested
\* in the body of another kept node, whatever the order in which the
\* statement kinds first appear in the text.
C22_NoKeptNodeNested ==
    (Len(ret) = 1 /\ ret[1].op = "load") =>
        \A n, m \in KeptNodes(call.code_tree) : ~NestedIn(n, m)

\* C23: load followed by save preserves the structure: the code rendered
\* from the code tree built from a source text, with no operation in
\* between, is judged equivalent to the text by compare_from_code, and its
\* statements are those of the text, none lost and none emitted twice.
C23_LoadThenRenderPreserves ==
    (Len(ret) = 2 /\ ret[2].op = "render") =>
        /\ compare_from_code(call.code, ret[2].after)
        /\ SameSorted(Dumps(call.code), ret[2].after)

\* C28: empty lists are never retained: after any sequence of operations
\* on a code tree (build, reading a kind through a getter, removing a
\* class, replacing the list of a kind) no kind of the tree has an empty
\* list.
C28_NoEmptyListRetained ==
    Len(ret) >= 1 =>
        \A b \in DOMAIN call.code_tree : call.code_tree[b].nodes # <<>>

\* C30: replacing the list of a kind by its own current contents is the
\* identity: after a setter was given the list returned by the getter of
\* the same kind, the kind has the same nodes in the same order.
C30_SetOwnListIsIdentity ==
    \A k \in DOMAIN ret :
        ret[k].op = "set_live" => ret[k].after = ret[k].before

\* C25: no file created by the extraction of a class holds an import
\* statement whose source module is the module of that file.
C25_NoSelfImport ==
    \A k \in DOMAIN extracted :
        ~ImportsModule(extracted[k].file, module(extracted[k].target))

\* the paths refactor may write besides the subject's own: the target path of
\* every class of the module and the normalised path of the module
WrittenPaths ==
    {target_file_path(StartClasses[k]) : k \in DOMAIN StartClasses}
        \cup {NormalizedPath}

\* the declarations of the file at q before the call are in the file at q
StillHolds(q) ==
    /\ q \in DOMAIN disk
    /\ disk[q].ok
    /\ Range(DeclarationsOf(disk_start[q].body)) \subseteq Range(disk[q].body)

\* C26: refactor overwrites no file that existed before the call other than
\* the subject's own: a different file that was at the target path of a
\* class or at the normalised path of the module still has its declarations
\* on disk after refactor.
C26_OtherFilesNotOverwritten ==
    (Ended /\ SubjectIsSource) =>
        \A q \in (DOMAIN disk_start \cap WrittenPaths) \ {path_start} :
            disk_start[q].ok => StillHolds(q)

\* C27: only top-level classes are extracted: every class moved to a file of
\* its own is a top-level statement of the module, whatever the order of the
\* module's top-level statements.
C27_OnlyTopLevelClassesExtracted ==
    \A k \in DOMAIN extracted :
        extracted[k].class \in Range(disk_start[path_start].body)

(***************************************************************************)
(* refactor as a call that runs on: in the loop, the next step of the call *)
(* is taken.  Invoking refactor again is up to the user.                   *)
(***************************************************************************)
\* one step of lines 282-329: an iteration of the loop, or the final save
LoopStep == ExtractSkip \/ ExtractClass \/ ReconcileImports

\* Weak fairness of LoopStep, WF_vars(LoopStep), written out with what
\* ENABLED <<LoopStep>>_vars comes to: in the loop one of lines 294-302
\* (ExtractSkip), 304-323 (ExtractClass) and 325-329 (ReconcileImports)
\* applies, and each changes the cursor, the serial or the position.
SpecModuleFair ==
    SpecModule /\ ([]<>(pc # "extract") \/ []<><<LoopStep>>_vars)

\* the classes the current call has handled so far, in order
Handled == skipped \o [k \in DOMAIN extracted |-> extracted[k].uid]

\* a list without its k-th element
Without(list, k) ==
    [j \in 1..(Len(list) - 1) |-> IF j < k THEN list[j] ELSE list[j + 1]]

\* the loop test of line 282 has failed: ReconcilingImports starts
LoopOver == pc = "extract" /\ i >= Len(classes(tree))

Contains(d, q, class_node) ==
    /\ q \in DOMAIN d
    /\ d[q].ok
    /\ Dump(class_node) \in Range(WalkStmts(d[q].body))

\* C29: during the extraction loop the origin module's file on disk is not
\* written, its one write being the final save; so at every moment of the
\* loop and after it, a class of the initial class list that the origin's
\* file on disk no longer holds has been extracted and the file at its
\* target path is on disk.
C29_OriginWrittenLast ==
    /\ [][(pc = "extract" /\ pc' = "extract") =>
            (path \in DOMAIN disk' /\ disk'[path] = disk[path])]_vars
    /\ []((pc = "extract" \/ Completed) =>
            \A k \in DOMAIN StartClasses :
                ~Contains(disk, path, StartClasses[k]) =>
                    \E j \in DOMAIN extracted :
                        /\ extracted[j].uid = StartClasses[k].uid
                        /\ extracted[j].target \in DOMAIN disk)

\* C29 witness: refactor has returned, a class has been extracted, the
\* origin's file no longer holds it and the file at its target path does
C29_Witness ==
    /\ Completed
    /\ extracted # <<>>
    /\ \E k \in DOMAIN StartClasses :
          /\ ~Contains(disk, path, StartClasses[k])
          /\ Declares(disk, target_file_path(StartClasses[k]), StartClasses[k])

====
